---- MODULE Spec2Model ----
(***************************************************************************)
(* A model of src/src/cmd_arg.rs: the command-line classifier `get`, its   *)
(* helpers `determine_opt_type` and `parse_values`, and the `Command`      *)
(* value it builds.  Strings are TLA+ strings; a character is a string of  *)
(* length one.                                                             *)
(***************************************************************************)
EXTENDS Integers, Sequences, FiniteSets, TLC

VARIABLES
    tokens,      \* the argument list env::args() yields, program name first
    pc,          \* position of get(): "start", "scan", "done" ("off": not running)
    pos,         \* number of items args_iter has yielded so far
    cmd_name,    \* Command.cmd_name
    opts,        \* Command.opts
    args,        \* Command.args
    sep,         \* index of the token that matched `arg == "--"` (0: none)
    classified,  \* indices of the tokens passed to determine_opt_type
    optSrc,      \* optSrc[i]: index of the token `arg` that opts[i] was added for
    reads,       \* indices of the tokens args_iter has yielded, in the order yielded
    fn,          \* helper under test: "determine_opt_type", "parse_values" ("none")
    fn_arg,      \* the helper's argument
    fn_from,     \* the value list fn_arg was joined from (when fn_joined)
    fn_joined,   \* whether fn_arg was built by joining fn_from with ","
    fn_pc,       \* "call" before the helper ran, "ret" after ("idle": none)
    fn_type,     \* determine_opt_type's result
    fn_values    \* parse_values's result

vars == <<tokens, pc, pos, cmd_name, opts, args, sep, classified, optSrc, reads,
          fn, fn_arg, fn_from, fn_joined, fn_pc, fn_type, fn_values>>

buildVars == <<tokens, pc, pos, cmd_name, opts, args, sep, classified, optSrc,
              reads>>
fnVars == <<fn, fn_arg, fn_from, fn_joined, fn_pc, fn_type, fn_values>>

----------------------------------------------------------------------------
(* Bounds of the model. *)

\* longest argument list of the multi-token specification (program name included)
MaxTokens == 4
\* longest token of the single-token specification
MaxArgLen == 5
\* longest argument of the helper specification (joined value lists included)
MaxFnLen == 5

\* U+000B, the vertical tab: the one ASCII whitespace character without an
\* escape, written as the character itself between the quotes
VerticalTab == ""

\* the characters tokens are made of, all of them ASCII, three of them
\* whitespace
Alphabet == {"-", "a", "b", "=", ",", " ", "\n", VerticalTab}

\* the characters the helpers' arguments are made of: to determine_opt_type
\* and to parse_values "=" is a character like "a" and "b"
FnAlphabet == Alphabet \ {"="}

\* the tokens of the multi-token specification
Tokens == {"", "-", "--", "a", "-a", "-ab", "-a-", "--a", "--a=b",
           "--=a, b\n" \o VerticalTab}

RECURSIVE Strs(_, _)
Strs(A, n) ==
    IF n = 0 THEN {""}
    ELSE LET P == Strs(A, n - 1) IN P \cup {s \o c : s \in P, c \in A}

SeqsUpTo(S, n) == UNION {[1..k -> S] : k \in 0..n}

----------------------------------------------------------------------------
(* String primitives of the standard library, as the code uses them. *)

Char(s, i) == SubSeq(s, i, i)

\* str::len: the length in bytes of the UTF-8 encoding, one byte for each
\* character of an ASCII string
len(s) == Len(s)

\* str::starts_with
starts_with(s, p) == Len(s) >= Len(p) /\ SubSeq(s, 1, Len(p)) = p

\* char::is_whitespace: the characters with the Unicode property White_Space.
\* In ASCII these are U+0009..U+000D and U+0020, all listed; the ones beyond
\* ASCII occur in no string of the model.
is_whitespace(c) == c \in {" ", "\t", "\n", VerticalTab, "\f", "\r"}

\* str::find for a one-character pattern, searching from index i (0: not found)
RECURSIVE find(_, _, _)
find(s, c, i) ==
    IF i > Len(s) THEN 0
    ELSE IF Char(s, i) = c THEN i
    ELSE find(s, c, i + 1)

\* str::find from the right (0: not found)
RECURSIVE rfind(_, _, _)
rfind(s, c, i) ==
    IF i < 1 THEN 0
    ELSE IF Char(s, i) = c THEN i
    ELSE rfind(s, c, i - 1)

\* variant of split_once that splits at the last occurrence (str::rsplit_once)
split_once_Last(s, c) ==
    LET i == rfind(s, c, Len(s)) IN
    IF i = 0 THEN [found |-> FALSE, key |-> s, value |-> ""]
    ELSE [found |-> TRUE, key |-> SubSeq(s, 1, i - 1),
          value |-> SubSeq(s, i + 1, Len(s))]

\* str::split_once
split_once(s, c) ==
    LET i == find(s, c, 1) IN
    IF i = 0 THEN [found |-> FALSE, key |-> s, value |-> ""]
    ELSE [found |-> TRUE, key |-> SubSeq(s, 1, i - 1),
          value |-> SubSeq(s, i + 1, Len(s))]

\* str::split(',').collect()
RECURSIVE split(_, _)
split(s, c) ==
    LET i == find(s, c, 1) IN
    IF i = 0 THEN <<s>>
    ELSE <<SubSeq(s, 1, i - 1)>> \o split(SubSeq(s, i + 1, Len(s)), c)

RECURSIVE trim_start(_)
trim_start(s) ==
    IF s # "" /\ is_whitespace(Char(s, 1)) THEN trim_start(Tail(s)) ELSE s

RECURSIVE trim_end(_)
trim_end(s) ==
    IF s # "" /\ is_whitespace(Char(s, Len(s)))
    THEN trim_end(SubSeq(s, 1, Len(s) - 1)) ELSE s

\* variant of trim that strips the leading whitespace only
trim_StartOnly(s) == trim_start(s)

\* str::trim
trim(s) == trim_end(trim_start(s))

----------------------------------------------------------------------------
(* The helpers of cmd_arg.rs. *)

\* variant of determine_opt_type without the length test of its second branch
determine_opt_type_NoLength(arg) ==
    IF starts_with(arg, "--") THEN "LongOpt"
    ELSE IF starts_with(arg, "-") THEN "ShortOpt"
    ELSE "Simple"

determine_opt_type(arg) ==
    IF starts_with(arg, "--") THEN "LongOpt"
    ELSE IF starts_with(arg, "-") /\ len(arg) > 1 THEN "ShortOpt"
    ELSE "Simple"

RECURSIVE MapTrim(_)
MapTrim(ps) == IF ps = <<>> THEN <<>> ELSE <<trim(Head(ps))>> \o MapTrim(Tail(ps))

NotEmpty(s) == s # ""

parse_values(value) == SelectSeq(MapTrim(split(value, ",")), NotEmpty)

\* variant of add_opt that inserts at the front
add_opt_Front(os, opt) == <<opt>> \o os

\* Command::add_opt
add_opt(os, opt) == Append(os, opt)

\* variant of extend that loses the first of the remaining items
extend_SkipsFirst(v, rest) == IF rest = <<>> THEN v ELSE v \o Tail(rest)

\* Vec::extend
extend(v, rest) == v \o rest

\* variant of the separator test that accepts every token starting with "--"
IsSeparator_Prefix(arg) == starts_with(arg, "--")

\* the `arg == "--"` test of the scan
IsSeparator(arg) == arg = "--"

\* variant of the LongOpt arm that parses values also when there is no "="
LongOptEntry_ValuesAlways(arg) ==
    LET kv == split_once(arg, "=") IN
    IF kv.found
    THEN [opt_type |-> "LongOpt", opt_str |-> kv.key,
          opt_values |-> parse_values(kv.value)]
    ELSE [opt_type |-> "LongOpt", opt_str |-> arg,
          opt_values |-> parse_values(arg)]

\* the Option the LongOpt arm adds for arg
LongOptEntry(arg) ==
    LET kv == split_once(arg, "=") IN
    IF kv.found
    THEN [opt_type |-> "LongOpt", opt_str |-> kv.key,
          opt_values |-> parse_values(kv.value)]
    ELSE [opt_type |-> "LongOpt", opt_str |-> arg, opt_values |-> <<>>]

\* the Options of `for c in arg.chars().skip(1)`, cs being the characters left
RECURSIVE BundledEntries(_)
BundledEntries(cs) ==
    IF cs = "" THEN <<>>
    ELSE <<[opt_type |-> "ShortOpt", opt_str |-> "-" \o Char(cs, 1),
            opt_values |-> <<>>]>> \o BundledEntries(Tail(cs))

\* variant of the ShortOpt arm whose bundling test is off by one
ShortOptEntries_LateBundle(arg) ==
    IF len(arg) > 3 THEN BundledEntries(Tail(arg))
    ELSE <<[opt_type |-> "ShortOpt", opt_str |-> arg, opt_values |-> <<>>]>>

\* the Options the ShortOpt arm adds for arg
ShortOptEntries(arg) ==
    IF len(arg) > 2 THEN BundledEntries(Tail(arg))
    ELSE <<[opt_type |-> "ShortOpt", opt_str |-> arg, opt_values |-> <<>>]>>

\* the Option the Simple arm adds for arg
SimpleEntry(arg) ==
    [opt_type |-> "Simple", opt_str |-> arg, opt_values |-> <<>>]

\* successive add_opt calls
RECURSIVE AddAll(_, _)
AddAll(os, es) == IF es = <<>> THEN os ELSE AddAll(add_opt(os, Head(es)), Tail(es))

----------------------------------------------------------------------------
(* get(): one action per step of the function. *)

HasNext == pos < Len(tokens)
arg == tokens[pos + 1]

\* variant of Start that reads the first item without advancing the iterator
Start_KeepsFirst ==
    /\ pc = "start"
    /\ cmd_name' = IF HasNext THEN arg ELSE ""
    /\ pos' = pos
    /\ opts' = <<>>
    /\ args' = <<>>
    /\ pc' = "scan"
    /\ reads' = IF HasNext THEN Append(reads, pos + 1) ELSE reads
    /\ UNCHANGED <<tokens, sep, classified, optSrc>>
    /\ UNCHANGED fnVars

\* let cmd_name = args_iter.next().unwrap_or_default(); Command::new(cmd_name)
Start ==
    /\ pc = "start"
    /\ cmd_name' = IF HasNext THEN arg ELSE ""
    /\ pos' = IF HasNext THEN pos + 1 ELSE pos
    /\ opts' = <<>>
    /\ args' = <<>>
    /\ pc' = "scan"
    /\ reads' = IF HasNext THEN Append(reads, pos + 1) ELSE reads
    /\ UNCHANGED <<tokens, sep, classified, optSrc>>
    /\ UNCHANGED fnVars

\* variant of ScanSeparator that copies the separator itself to args as well
ScanSeparator_KeepsSeparator ==
    /\ pc = "scan"
    /\ HasNext
    /\ IsSeparator(arg)
    /\ args' = extend(args, SubSeq(tokens, pos + 1, Len(tokens)))
    /\ sep' = pos + 1
    /\ pos' = Len(tokens)
    /\ reads' = reads \o [i \in 1..(Len(tokens) - pos) |-> pos + i]
    /\ pc' = "done"
    /\ UNCHANGED <<tokens, cmd_name, opts, classified, optSrc>>
    /\ UNCHANGED fnVars

\* variant of ScanSeparator that copies the rest to args and goes on scanning
\* it instead of leaving the loop
ScanSeparator_NoBreak ==
    /\ pc = "scan"
    /\ HasNext
    /\ IsSeparator(arg)
    /\ args' = extend(args, SubSeq(tokens, pos + 2, Len(tokens)))
    /\ sep' = pos + 1
    /\ pos' = pos + 1
    /\ reads' = reads \o [i \in 1..(Len(tokens) - pos) |-> pos + i]
    /\ pc' = "scan"
    /\ UNCHANGED <<tokens, cmd_name, opts, classified, optSrc>>
    /\ UNCHANGED fnVars

\* arg == "--": command.args.extend(args_iter); break
ScanSeparator ==
    /\ pc = "scan"
    /\ HasNext
    /\ IsSeparator(arg)
    /\ args' = extend(args, SubSeq(tokens, pos + 2, Len(tokens)))
    /\ sep' = pos + 1
    /\ pos' = Len(tokens)
    /\ reads' = reads \o [i \in 1..(Len(tokens) - pos) |-> pos + i]
    /\ pc' = "done"
    /\ UNCHANGED <<tokens, cmd_name, opts, classified, optSrc>>
    /\ UNCHANGED fnVars

\* the arm of `match opt_type` for OptionType::LongOpt
ScanLongOpt ==
    /\ pc = "scan"
    /\ HasNext
    /\ ~IsSeparator(arg)
    /\ determine_opt_type(arg) = "LongOpt"
    /\ opts' = add_opt(opts, LongOptEntry(arg))
    /\ optSrc' = Append(optSrc, pos + 1)
    /\ classified' = classified \cup {pos + 1}
    /\ pos' = pos + 1
    /\ reads' = Append(reads, pos + 1)
    /\ UNCHANGED <<tokens, pc, cmd_name, args, sep>>
    /\ UNCHANGED fnVars

\* the arm for OptionType::ShortOpt
ScanShortOpt ==
    /\ pc = "scan"
    /\ HasNext
    /\ ~IsSeparator(arg)
    /\ determine_opt_type(arg) = "ShortOpt"
    /\ LET es == ShortOptEntries(arg) IN
         /\ opts' = AddAll(opts, es)
         /\ optSrc' = optSrc \o [i \in 1..Len(es) |-> pos + 1]
    /\ classified' = classified \cup {pos + 1}
    /\ pos' = pos + 1
    /\ reads' = Append(reads, pos + 1)
    /\ UNCHANGED <<tokens, pc, cmd_name, args, sep>>
    /\ UNCHANGED fnVars

\* the arm for OptionType::Simple
ScanSimple ==
    /\ pc = "scan"
    /\ HasNext
    /\ ~IsSeparator(arg)
    /\ determine_opt_type(arg) = "Simple"
    /\ opts' = add_opt(opts, SimpleEntry(arg))
    /\ optSrc' = Append(optSrc, pos + 1)
    /\ classified' = classified \cup {pos + 1}
    /\ pos' = pos + 1
    /\ reads' = Append(reads, pos + 1)
    /\ UNCHANGED <<tokens, pc, cmd_name, args, sep>>
    /\ UNCHANGED fnVars

\* args_iter.next() is None: the loop ends and command is returned
Finish ==
    /\ pc = "scan"
    /\ ~HasNext
    /\ pc' = "done"
    /\ UNCHANGED <<tokens, pos, cmd_name, opts, args, sep, classified, optSrc,
                   reads>>
    /\ UNCHANGED fnVars

Next == Start \/ ScanSeparator \/ ScanLongOpt \/ ScanShortOpt \/ ScanSimple \/ Finish

NoCall ==
    /\ fn = "none"
    /\ fn_arg = ""
    /\ fn_from = <<>>
    /\ fn_joined = FALSE
    /\ fn_pc = "idle"
    /\ fn_type = ""
    /\ fn_values = <<>>

BeforeGet ==
    /\ pc = "start"
    /\ pos = 0
    /\ cmd_name = ""
    /\ opts = <<>>
    /\ args = <<>>
    /\ sep = 0
    /\ classified = {}
    /\ optSrc = <<>>
    /\ reads = <<>>

\* get() on an argument list of up to MaxTokens tokens
Init ==
    /\ tokens \in SeqsUpTo(Tokens, MaxTokens)
    /\ BeforeGet
    /\ NoCall

Spec == Init /\ [][Next]_vars

\* get() on a program name and one argument, any string of up to MaxArgLen characters
InitArg ==
    /\ tokens \in {<<"p", t>> : t \in Strs(Alphabet, MaxArgLen)}
    /\ BeforeGet
    /\ NoCall

SpecArg == InitArg /\ [][Next]_vars

\* get() is sequential code that nothing suspends: a step that can be taken is taken
SpecFair == Init /\ [][Next]_vars /\ WF_vars(Next)

\* get() returns
Terminates == <>(pc = "done")

----------------------------------------------------------------------------
(* The helpers on their own: one call of determine_opt_type or parse_values. *)

Join(V) ==
    LET RECURSIVE J(_)
        J(W) == IF W = <<>> THEN ""
                ELSE IF Len(W) = 1 THEN W[1]
                ELSE W[1] \o "," \o J(Tail(W))
    IN J(V)

\* a value as parse_values returns them: not empty, no comma, no outer whitespace
IsValue(s) ==
    /\ s # ""
    /\ \A i \in 1..Len(s) : Char(s, i) # ","
    /\ ~is_whitespace(Char(s, 1))
    /\ ~is_whitespace(Char(s, Len(s)))

\* the non-empty lists of values whose join has at most n characters
RECURSIVE JoinedLists(_)
JoinedLists(n) ==
    UNION { LET E == {e \in Strs(FnAlphabet, k) : Len(e) = k /\ IsValue(e)}
                T == JoinedLists(n - k - 1)
            IN  {<<e>> : e \in E} \cup {<<e>> \o L : e \in E, L \in T}
            : k \in 1..n }

ValueLists(n) == {<<>>} \cup JoinedLists(n)

CallDetermineOptType ==
    /\ fn = "determine_opt_type"
    /\ fn_pc = "call"
    /\ fn_type' = determine_opt_type(fn_arg)
    /\ fn_pc' = "ret"
    /\ UNCHANGED <<fn, fn_arg, fn_from, fn_joined, fn_values>>
    /\ UNCHANGED buildVars

CallParseValues ==
    /\ fn = "parse_values"
    /\ fn_pc = "call"
    /\ fn_values' = parse_values(fn_arg)
    /\ fn_pc' = "ret"
    /\ UNCHANGED <<fn, fn_arg, fn_from, fn_joined, fn_type>>
    /\ UNCHANGED buildVars

NextFn == CallDetermineOptType \/ CallParseValues

InitFn ==
    /\ tokens = <<>>
    /\ pc = "off"
    /\ pos = 0
    /\ cmd_name = ""
    /\ opts = <<>>
    /\ args = <<>>
    /\ sep = 0
    /\ classified = {}
    /\ optSrc = <<>>
    /\ reads = <<>>
    /\ \/ /\ fn \in {"determine_opt_type", "parse_values"}
          /\ fn_arg \in Strs(FnAlphabet, MaxFnLen)
          /\ fn_from = <<>>
          /\ fn_joined = FALSE
       \/ /\ fn = "parse_values"
          /\ fn_from \in ValueLists(MaxFnLen)
          /\ fn_arg = Join(fn_from)
          /\ fn_joined = TRUE
    /\ fn_pc = "call"
    /\ fn_type = ""
    /\ fn_values = <<>>

SpecFn == InitFn /\ [][NextFn]_vars

----------------------------------------------------------------------------
(* Vocabulary of the properties, in terms of the input alone. *)

\* the positions after the program name whose token is literally "--"
SepPositions == {i \in 2..Len(tokens) : tokens[i] = "--"}

\* the first of them (0: there is none)
FirstSep ==
    IF SepPositions = {} THEN 0
    ELSE CHOOSE i \in SepPositions : \A j \in SepPositions : i <= j

\* the last position whose token is classified once the scan is over
LastOption == IF FirstSep = 0 THEN Len(tokens) ELSE FirstSep - 1

HasChar(s, c) == \E i \in 1..Len(s) : Char(s, i) = c

\* the positions of opts that were added for token j
EntriesOf(j) == {i \in 1..Len(opts) : optSrc[i] = j}

\* the entries one token contributes to opts
Expand(t) ==
    CASE determine_opt_type(t) = "LongOpt" -> <<LongOptEntry(t)>>
      [] determine_opt_type(t) = "ShortOpt" -> ShortOptEntries(t)
      [] OTHER -> <<SimpleEntry(t)>>

\* the expansions of tokens a..b, one after the other
RECURSIVE Expansions(_, _)
Expansions(a, b) ==
    IF a > b THEN <<>> ELSE Expand(tokens[a]) \o Expansions(a + 1, b)

----------------------------------------------------------------------------
(* C1 *)

\* C1 as stated: when get() returns, args is empty if and only if no token
\* after the first literally equals "--".
C1_EmptyIffNoSeparator ==
    pc = "done" => ((args = <<>>) <=> (SepPositions = {}))

\* C1, amended: when get() returns, args is empty if and only if no token after
\* the first equals "--", or the first such "--" is the last token of the list.
C1_EmptyIffNothingAfterSeparator ==
    pc = "done" =>
        ((args = <<>>) <=> (SepPositions = {} \/ FirstSep = Len(tokens)))

C1_Witness ==
    /\ pc = "done"
    /\ FirstSep # 0
    /\ FirstSep = Len(tokens)
    /\ sep = FirstSep
    /\ args = <<>>
    /\ opts # <<>>

----------------------------------------------------------------------------
(* C2 *)

\* C2: when the tokens after the program name contain "--", the returned args
\* are exactly the tokens strictly after the first such "--", in order and
\* unmodified; the step that consumes the separator ends the scan and leaves
\* opts alone, and nothing is added to opts or args afterwards.
C2_PositionalsAfterFirstSeparator ==
    /\ [](pc = "done" /\ FirstSep # 0 =>
            /\ args = SubSeq(tokens, FirstSep + 1, Len(tokens))
            /\ \A i \in 1..Len(opts) : optSrc[i] < FirstSep)
    /\ [][ /\ (sep = 0 /\ sep' # 0) => (pc' = "done" /\ opts' = opts)
           /\ sep # 0 => (opts' = opts /\ args' = args /\ pc' = "done") ]_vars

C2_Witness ==
    /\ pc = "done"
    /\ FirstSep # 0
    /\ Len(args) >= 2
    /\ \E i \in 1..Len(args) : args[i] = "--"
    /\ \E i \in 1..Len(args) : determine_opt_type(args[i]) = "ShortOpt"

----------------------------------------------------------------------------
(* C3 *)

\* C3 as stated: every token that equals "--", whatever its position, is
\* treated as the separator and is never classified (read in the claim's
\* favour: the program name, which C10 is about, is left out).
C3_EveryDashDashIsSeparator ==
    pc = "done" =>
        \A i \in 2..Len(tokens) :
            tokens[i] = "--" => (sep = i /\ i \notin classified)

\* C3, amended: no token that equals "--" is ever classified; the separator is
\* the first "--" after the program name and no other token; a "--" in first
\* position is the program name and a "--" after the separator is copied to
\* args verbatim.
C3_OnlyFirstDashDashIsSeparator ==
    /\ \A i \in 1..Len(tokens) : tokens[i] = "--" => i \notin classified
    /\ pc = "done" =>
        /\ sep = FirstSep
        /\ \A i \in 1..Len(tokens) :
              (tokens[i] = "--" /\ i # sep) =>
                  \/ i = 1 /\ cmd_name = "--"
                  \/ sep # 0 /\ i > sep /\ args[i - sep] = "--"

C3_Witness ==
    /\ pc = "done"
    /\ Len(tokens) >= 3
    /\ tokens[1] = "--"
    /\ sep = 2
    /\ tokens[3] = "--"
    /\ args[1] = "--"

----------------------------------------------------------------------------
(* C4 *)

\* C4: at every step opts is the in-order concatenation of the expansions of
\* the tokens scanned so far, and when get() returns it is the concatenation
\* of the expansions of the tokens between the program name and the first
\* "--" (or the end); each token's entries are consecutive, in token order.
C4_OptionsAreConcatenatedExpansions ==
    /\ opts = Expansions(2, IF sep # 0 THEN sep - 1 ELSE pos)
    /\ pc = "done" => opts = Expansions(2, LastOption)
    /\ Len(optSrc) = Len(opts)
    /\ \A i, j \in 1..Len(opts) : i <= j => optSrc[i] <= optSrc[j]

C4_Witness ==
    /\ pc = "done"
    /\ sep = 4
    /\ Len(tokens[2]) = 3
    /\ determine_opt_type(tokens[2]) = "ShortOpt"
    /\ determine_opt_type(tokens[3]) = "LongOpt"
    /\ Len(opts) = 3
    /\ opts[3].opt_values # <<>>

----------------------------------------------------------------------------
(* C9 *)

\* C9: in every state of the scan, an option with a non-empty value list is a
\* LongOpt added for a token that contains "="; Simple options, ShortOpt
\* options and LongOpt options added for a token without "=" have no values.
C9_ValuesOnlyForLongWithEquals ==
    \A i \in 1..Len(opts) :
        /\ opts[i].opt_values # <<>> =>
              /\ opts[i].opt_type = "LongOpt"
              /\ HasChar(tokens[optSrc[i]], "=")
        /\ ( \/ opts[i].opt_type \in {"Simple", "ShortOpt"}
             \/ ~HasChar(tokens[optSrc[i]], "=") ) => opts[i].opt_values = <<>>

C9_Witness ==
    /\ pc = "scan"
    /\ HasNext
    /\ \E i \in 1..Len(opts) : Len(opts[i].opt_values) = 2
    /\ \E i \in 1..Len(opts) :
          opts[i].opt_type = "ShortOpt" /\ HasChar(tokens[optSrc[i]], "=") = FALSE
             /\ Len(tokens[optSrc[i]]) = 3

----------------------------------------------------------------------------
(* C10 *)

\* C10: once taken, cmd_name is the first token copied verbatim (the empty
\* string for an empty list); the first token is never classified, never the
\* separator and never the source of an option; for an empty list get()
\* returns empty opts and args.
C10_ProgramNameVerbatim ==
    /\ pc # "start" => cmd_name = (IF tokens = <<>> THEN "" ELSE tokens[1])
    /\ 1 \notin classified
    /\ sep # 1
    /\ \A i \in 1..Len(optSrc) : optSrc[i] # 1
    /\ (tokens = <<>> /\ pc = "done") => (opts = <<>> /\ args = <<>>)

C10_Witness ==
    /\ pc = "done"
    /\ Len(tokens) = 3
    /\ tokens[1] = "--"
    /\ cmd_name = "--"
    /\ sep = 0
    /\ Len(opts) >= 2

----------------------------------------------------------------------------
(* C5 *)

\* C5: a classified token of kind ShortOpt with n characters after its hyphen
\* contributes exactly n consecutive options, the i-th being the ShortOpt "-"
\* followed by the i-th of those characters, with no values (a repeated
\* character gives repeated options); for n = 1 that one option's text is the
\* whole token.
C5_ShortOptionExpansion ==
    \A j \in classified :
        determine_opt_type(tokens[j]) = "ShortOpt" =>
            LET t == tokens[j]
                n == Len(t) - 1
            IN  /\ n >= 1
                /\ \E a \in 1..Len(opts) :
                      /\ EntriesOf(j) = a..(a + n - 1)
                      /\ \A i \in 1..n :
                            opts[a + i - 1] =
                                [opt_type |-> "ShortOpt",
                                 opt_str |-> "-" \o Char(t, i + 1),
                                 opt_values |-> <<>>]
                      /\ n = 1 => opts[a].opt_str = t

C5_Witness ==
    /\ pc = "done"
    /\ Len(tokens) = 2
    /\ Len(tokens[2]) = 4
    /\ Len(opts) = 3
    /\ opts[1].opt_type = "ShortOpt"
    /\ opts[1].opt_str = opts[3].opt_str
    /\ opts[2].opt_str = "--"

----------------------------------------------------------------------------
(* C6 *)

\* the position of the first "=" of a token that has one
FirstEquals(t) ==
    CHOOSE i \in 1..Len(t) :
        Char(t, i) = "=" /\ \A k \in 1..(i - 1) : Char(t, k) # "="

\* C6: a classified token of kind LongOpt contributes exactly one option, of
\* kind LongOpt; with a "=" in the token its text is what precedes the first
\* "=" and its values are parse_values of all that follows the first "=";
\* without, its text is the whole token and it has no values.
C6_LongOptionEntry ==
    \A j \in classified :
        determine_opt_type(tokens[j]) = "LongOpt" =>
            LET t == tokens[j] IN
            \E a \in 1..Len(opts) :
                /\ EntriesOf(j) = {a}
                /\ opts[a].opt_type = "LongOpt"
                /\ IF HasChar(t, "=")
                   THEN /\ opts[a].opt_str = SubSeq(t, 1, FirstEquals(t) - 1)
                        /\ opts[a].opt_values =
                              parse_values(SubSeq(t, FirstEquals(t) + 1, Len(t)))
                   ELSE /\ opts[a].opt_str = t
                        /\ opts[a].opt_values = <<>>

C6_Witness ==
    /\ pc = "done"
    /\ Len(tokens) = 2
    /\ Cardinality({i \in 1..Len(tokens[2]) : Char(tokens[2], i) = "="}) = 2
    /\ Len(opts) = 1
    /\ opts[1].opt_type = "LongOpt"
    /\ opts[1].opt_str = "--a"
    /\ opts[1].opt_values = <<"=">>

----------------------------------------------------------------------------
(* C7 *)

\* C7: determine_opt_type returns one of the three kinds for every string, by
\* the string's characters alone: LongOpt exactly when its first two
\* characters are hyphens ("--" itself included), ShortOpt exactly when its
\* first character is a hyphen, its second exists and is no hyphen, and
\* Simple otherwise ("", "-", and whatever does not start with a hyphen).
C7_Classification ==
    (fn = "determine_opt_type" /\ fn_pc = "ret") =>
        LET t == fn_arg
            twoHyphens == Len(t) >= 2 /\ Char(t, 1) = "-" /\ Char(t, 2) = "-"
            oneHyphen == Len(t) > 1 /\ Char(t, 1) = "-" /\ Char(t, 2) # "-"
        IN  /\ fn_type \in {"LongOpt", "ShortOpt", "Simple"}
            /\ fn_type = "LongOpt" <=> twoHyphens
            /\ fn_type = "ShortOpt" <=> oneHyphen
            /\ fn_type = "Simple" <=> (~twoHyphens /\ ~oneHyphen)
            /\ t = "--" => fn_type = "LongOpt"
            /\ (t = "" \/ t = "-" \/ (t # "" /\ Char(t, 1) # "-")) =>
                  fn_type = "Simple"

C7_Witness ==
    /\ fn = "determine_opt_type"
    /\ fn_pc = "ret"
    /\ fn_arg = "-"
    /\ fn_type = "Simple"

----------------------------------------------------------------------------
(* C8 *)

\* the k-th smallest element of a set of numbers
Kth(B, k) == CHOOSE x \in B : Cardinality({y \in B : y < x}) = k - 1

\* the comma-delimited pieces of raw: what lies between two neighbouring
\* delimiting positions (the commas, the position before the first character
\* and the one after the last)
Pieces(raw) ==
    LET B == {0, Len(raw) + 1} \cup {i \in 1..Len(raw) : Char(raw, i) = ","}
    IN  [k \in 1..(Cardinality(B) - 1) |->
            SubSeq(raw, Kth(B, k) + 1, Kth(B, k + 1) - 1)]

\* s without its leading and trailing whitespace
Trimmed(s) ==
    LET N == {i \in 1..Len(s) : ~is_whitespace(Char(s, i))} IN
    IF N = {} THEN ""
    ELSE SubSeq(s, CHOOSE i \in N : \A k \in N : i <= k,
                   CHOOSE i \in N : \A k \in N : i >= k)

\* whether ws is the list vs without its empty members
IsWithoutEmpties(ws, vs) ==
    LET keep == {i \in 1..Len(vs) : vs[i] # ""} IN
    /\ Len(ws) = Cardinality(keep)
    /\ \A k \in 1..Len(ws) : ws[k] = vs[Kth(keep, k)]

\* C8: parse_values(raw) is the list of the comma-delimited pieces of raw, each
\* trimmed, without the pieces that are empty after trimming, in their order;
\* every element is non-empty, has no comma and no leading or trailing
\* whitespace (a newline and a vertical tab are whitespace like a space, and
\* whitespace inside a value stays); parse_values("") and parse_values(",,") are empty; and
\* parse_values of a list of such elements joined by "," is that list.
C8_ParseValues ==
    (fn = "parse_values" /\ fn_pc = "ret") =>
        LET ps == Pieces(fn_arg)
            ts == [k \in 1..Len(ps) |-> Trimmed(ps[k])]
        IN  /\ IsWithoutEmpties(fn_values, ts)
            /\ \A k \in 1..Len(fn_values) : IsValue(fn_values[k])
            /\ fn_arg \in {"", ",,"} => fn_values = <<>>
            /\ fn_arg = "\na \n" => fn_values = <<"a">>
            /\ fn_arg = " \n,a\nb" => fn_values = <<"a\nb">>
            /\ fn_arg = VerticalTab => fn_values = <<>>
            /\ fn_arg = VerticalTab \o "b,a" \o VerticalTab =>
                  fn_values = <<"b", "a">>
            /\ fn_arg = "a" \o VerticalTab \o "b" =>
                  fn_values = <<"a" \o VerticalTab \o "b">>
            /\ fn_joined => fn_values = fn_from

C8_Witness ==
    /\ fn = "parse_values"
    /\ fn_pc = "ret"
    /\ fn_joined
    /\ Len(fn_from) = 2
    /\ \E i \in 1..Len(fn_arg) : Char(fn_arg, i) = VerticalTab
    /\ fn_values = fn_from

----------------------------------------------------------------------------
(* C11 *)

\* the result is a well-formed Command
IsCommand ==
    /\ cmd_name \in Tokens \cup {""}
    /\ \A i \in 1..Len(opts) :
          /\ opts[i].opt_type \in {"Simple", "ShortOpt", "LongOpt"}
          /\ Len(opts[i].opt_str) >= 0
          /\ Len(opts[i].opt_values) >= 0
    /\ \A i \in 1..Len(args) : args[i] \in Tokens

\* what get() has left to do: the tokens not yet yielded, and its own steps
Remaining ==
    (Len(tokens) - pos)
        + (IF pc = "start" THEN 2 ELSE IF pc = "scan" THEN 1 ELSE 0)

\* whether get() has a step to take: the first read, the end of the loop, the
\* separator branch, or an arm of the match for the kind of the token
CanStep ==
    \/ pc = "start"
    \/ pc = "scan" /\ ~HasNext
    \/ pc = "scan" /\ HasNext /\ IsSeparator(arg)
    \/ pc = "scan" /\ HasNext /\ ~IsSeparator(arg)
          /\ determine_opt_type(arg) \in {"LongOpt", "ShortOpt", "Simple"}

\* C11: for every argument list (the empty one, and those with empty tokens
\* or tokens made of hyphens only, included) get() returns a Command: before
\* it returns some step of it can always be taken (no token leaves it without
\* a branch) and every step brings it nearer to the end, which it reaches
\* after at most Len(tokens) + 2 steps; args_iter yields every token at most
\* once, in increasing order, and has yielded every token when get() returns.
C11_TerminatesReadingEachTokenOnce ==
    /\ [](/\ pc # "done" => CanStep
          /\ pc = "done" => (IsCommand /\ Remaining = 0)
          /\ Remaining \in 0..(Len(tokens) + 2)
          /\ \A i, j \in 1..Len(reads) : i < j => reads[i] < reads[j]
          /\ \A i \in 1..Len(reads) : reads[i] \in 1..Len(tokens)
          /\ pc = "done" => Len(reads) = Len(tokens))
    /\ [][Remaining' < Remaining]_vars

C11_Witness ==
    /\ pc = "done"
    /\ Len(tokens) = 4
    /\ tokens[1] = ""
    /\ tokens[2] = ""
    /\ tokens[3] = "-"
    /\ tokens[4] = "--"
    /\ reads = <<1, 2, 3, 4>>
    /\ Len(opts) = 2

----------------------------------------------------------------------------
(* C12 *)

\* C12: for every option of opts, determine_opt_type of its text is its
\* recorded kind (so no ShortOpt option has the text "--").
C12_TextReclassifiesToKind ==
    \A i \in 1..Len(opts) :
        determine_opt_type(opts[i].opt_str) = opts[i].opt_type

====
